---- MODULE Spec2Model ----
(***************************************************************************)
(* FINANCE-ASSISTANT-GUI: the CSV export helper                            *)
(* (src/utils/export_data.py) and the settings panel                       *)
(* (src/ui/settings_panel.py), as one state machine.                       *)
(*                                                                         *)
(* A Python dict is a sequence of <<key, value>> pairs in insertion order. *)
(* An optional argument is <<>> (None) or <<value>>.  A file is a record   *)
(* [exists, rows], rows being the CSV rows written, each a sequence of     *)
(* cells.                                                                  *)
(***************************************************************************)
EXTENDS Integers, Sequences, FiniteSets, TLC

VARIABLES
    \* the file system and the clock
    files, dirs, now,
    \* one run of utils.export_data.export_transactions
    hpc, caller, h_transactions, h_file_path, h_path, h_idx, h_exc, h_ret,
    filesBefore,
    \* the SettingsPanel
    ppc, theme_var, settings_theme, db_theme, label_text, appearance,
    refresh_callback, new_theme, p_df, p_transactions, p_file_path, p_exc,
    \* what the current (or last) handler run did
    handler, events, boxes, outcome, toggleOutcome, filesAtHandler, snapCur, snapPrev

fsvars == <<files, dirs, now>>
hvars == <<hpc, caller, h_transactions, h_file_path, h_path, h_idx, h_exc, h_ret,
           filesBefore>>
themevars == <<theme_var, settings_theme, db_theme, label_text, appearance>>
plocals == <<new_theme, p_df, p_transactions, p_file_path, p_exc>>
histvars == <<handler, events, boxes, outcome, toggleOutcome, filesAtHandler, snapCur,
              snapPrev>>
pvars == <<ppc, themevars, refresh_callback, plocals, histvars>>
vars == <<fsvars, hvars, pvars>>

----------------------------------------------------------------------------
(* Bounds *)

MaxTxns == 2
MaxClock == 2
MaxRows == 2

----------------------------------------------------------------------------
(* Sequences and dicts *)

RECURSIVE SeqsUpTo(_, _)
SeqsUpTo(S, n) ==
    IF n = 0 THEN {<<>>}
    ELSE LET shorter == SeqsUpTo(S, n - 1)
         IN  shorter \cup {Append(s, x) : s \in {t \in shorter : Len(t) = n - 1}, x \in S}

Range(s) == {s[i] : i \in 1..Len(s)}

\* dict.keys(): the keys in insertion order
Keys(d) == [i \in 1..Len(d) |-> d[i][1]]

\* dict.get(key, default)
Get(d, key, default) ==
    IF \E i \in 1..Len(d) : d[i][1] = key
    THEN d[CHOOSE i \in 1..Len(d) : d[i][1] = key][2]
    ELSE default

----------------------------------------------------------------------------
(* The clock: datetime.now().strftime("%Y%m%d_%H%M%S") *)

\* the wall clock when the model starts; `now` counts the seconds since
BaseTime == [year |-> 2025, month |-> 1, day |-> 5, second |-> 35998]

ClockTime(t) ==
    LET s == BaseTime.second + t
    IN  [year |-> BaseTime.year, month |-> BaseTime.month, day |-> BaseTime.day,
         hour |-> s \div 3600, minute |-> (s % 3600) \div 60, second |-> s % 60]

RECURSIVE ZeroPad(_, _)
ZeroPad(n, width) ==
    IF width = 0 THEN ""
    ELSE ZeroPad(n \div 10, width - 1) \o ToString(n % 10)

Strftime(t) ==
    LET c == ClockTime(t)
    IN  ZeroPad(c.year, 4) \o ZeroPad(c.month, 2) \o ZeroPad(c.day, 2) \o "_"
        \o ZeroPad(c.hour, 2) \o ZeroPad(c.minute, 2) \o ZeroPad(c.second, 2)

DefaultName(t) == "transactions_export_" \o Strftime(t) \o ".csv"

----------------------------------------------------------------------------
(* The file system *)

NoFile == [exists |-> FALSE, rows |-> <<>>]
EmptyFile == [exists |-> TRUE, rows |-> <<>>]
OldFile == [exists |-> TRUE, rows |-> <<<<"old">>>>]

\* the paths a caller passes; "data" names a directory
GivenPaths == {"data/out.csv", "missing/out.csv", "locked/out.csv", "data"}
DefaultPaths == {DefaultName(t) : t \in 0..MaxClock}
AllPaths == GivenPaths \cup DefaultPaths

DirOf(p) ==
    CASE p = "data/out.csv" -> "data"
      [] p = "missing/out.csv" -> "missing"
      [] p = "locked/out.csv" -> "locked"
      [] OTHER -> "."

NoException == [type |-> "", text |-> ""]

\* open(file_path, "w"): NoException when the file is opened for writing
OpenError(p, d) ==
    CASE p = "" ->
            [type |-> "FileNotFoundError",
             text |-> "[Errno 2] No such file or directory: ''"]
      [] p = "data" ->
            [type |-> "IsADirectoryError",
             text |-> "[Errno 21] Is a directory: '" \o p \o "'"]
      [] p # "" /\ p # "data" /\ d[DirOf(p)] = "missing" ->
            [type |-> "FileNotFoundError",
             text |-> "[Errno 2] No such file or directory: '" \o p \o "'"]
      [] p # "" /\ p # "data" /\ d[DirOf(p)] = "denied" ->
            [type |-> "PermissionError",
             text |-> "[Errno 13] Permission denied: '" \o p \o "'"]
      [] OTHER -> NoException

----------------------------------------------------------------------------
(* utils.export_data.export_transactions *)

\* the records the direct calls draw from
Records ==
    { <<<<"Date", "2025-01-05">>, <<"Amount", "12.50">>>>,
      <<<<"Date", "2025-01-06">>, <<"Amount", "3.00">>>>,
      <<<<"Amount", "7.25">>, <<"Date", "2025-01-07">>>>,
      <<<<"Date", "2025-01-08">>, <<"Amount", "1.00">>, <<"Type", "Income">>>>,
      <<<<"Date", "2025-01-09">>>> }

TxnLists == SeqsUpTo(Records, MaxTxns)
PathArgs == {<<>>, <<"">>} \cup {<<p>> : p \in GivenPaths}

\* `not file_path`
Falsy(arg) == arg = <<>> \/ arg[1] = ""

ResolvePath_NoneOnly(arg, t) == IF arg = <<>> THEN DefaultName(t) ELSE arg[1]

\* lines 18-21
ResolvePath(arg, t) == IF Falsy(arg) THEN DefaultName(t) ELSE arg[1]

\* csv.DictWriter._dict_to_list: the keys of the row that are no field names
WrongFields(rowdict, fieldnames) ==
    SelectSeq(Keys(rowdict), LAMBDA k : k \notin Range(fieldnames))

RECURSIVE JoinRepr(_)
JoinRepr(ks) ==
    IF ks = <<>> THEN ""
    ELSE IF Len(ks) = 1 THEN "'" \o ks[1] \o "'"
    ELSE "'" \o ks[1] \o "', " \o JoinRepr(Tail(ks))

DictToList_RowOrder(rowdict, fieldnames) ==
    [i \in 1..Len(rowdict) |-> rowdict[i][2]]

\* csv.DictWriter._dict_to_list: the cells in the order of the field names,
\* restval "" for a missing key
DictToList(rowdict, fieldnames) ==
    [i \in 1..Len(fieldnames) |-> Get(rowdict, fieldnames[i], "")]

\* the exception classes that `except Exception` (line 41) catches: every error
\* open() and csv raise is one
ExceptionClasses ==
    {"FileNotFoundError", "PermissionError", "IsADirectoryError", "ValueError"}

Caught_OnlyOsErrors(type) ==
    type \in {"PermissionError", "IsADirectoryError"}

\* lines 35, 38, 41: whether one of the except clauses takes the error
Caught(type) ==
    type \in ExceptionClasses

ExceptResult_CatchAllFirst(exc, path) ==
    <<FALSE, "Error exporting transactions: " \o exc.type \o ": " \o exc.text>>

\* lines 35-42: the except clauses, in their order
ExceptResult(exc, path) ==
    CASE exc.type = "FileNotFoundError" ->
            <<FALSE, "Error: The directory for '" \o path \o "' does not exist.">>
      [] exc.type = "PermissionError" ->
            <<FALSE, "Error: Permission denied to write to '" \o path \o "'.">>
      [] OTHER ->
            <<FALSE, "Error exporting transactions: " \o exc.type \o ": " \o exc.text>>

\* lines 18-21
H_Resolve ==
    /\ hpc = "resolve"
    /\ h_path' = ResolvePath(h_file_path, now)
    /\ hpc' = "open"
    /\ UNCHANGED <<fsvars, caller, h_transactions, h_file_path, h_idx, h_exc, h_ret,
                   filesBefore, pvars>>

\* line 24: open(file_path, "w") creates or truncates the file, or raises
H_Open ==
    /\ hpc = "open"
    /\ LET e == OpenError(h_path, dirs)
       IN  IF e = NoException
           THEN /\ files' = [files EXCEPT ![h_path] = EmptyFile]
                /\ hpc' = "check"
                /\ UNCHANGED h_exc
           ELSE /\ h_exc' = e
                /\ hpc' = "except"
                /\ UNCHANGED files
    /\ UNCHANGED <<dirs, now, caller, h_transactions, h_file_path, h_path, h_idx, h_ret,
                   filesBefore, pvars>>

\* lines 25-26
H_CheckEmpty ==
    /\ hpc = "check"
    /\ IF h_transactions = <<>>
       THEN /\ h_ret' = <<FALSE, "No transactions to export">>
            /\ hpc' = "returned"
       ELSE /\ hpc' = "header"
            /\ UNCHANGED h_ret
    /\ UNCHANGED <<fsvars, caller, h_transactions, h_file_path, h_path, h_idx, h_exc,
                   filesBefore, pvars>>

\* lines 29-31: writer.writeheader()
H_Header ==
    /\ hpc = "header"
    /\ files' = [files EXCEPT ![h_path].rows = Append(@, Keys(h_transactions[1]))]
    /\ h_idx' = 1
    /\ hpc' = "rows"
    /\ UNCHANGED <<dirs, now, caller, h_transactions, h_file_path, h_path, h_exc, h_ret,
                   filesBefore, pvars>>

\* line 32: writer.writerows(transactions), one row at a time
H_WriteRow ==
    /\ hpc = "rows"
    /\ h_idx <= Len(h_transactions)
    /\ LET fieldnames == Keys(h_transactions[1])
           rowdict == h_transactions[h_idx]
           wrong == WrongFields(rowdict, fieldnames)
       IN  IF wrong # <<>>
           THEN /\ h_exc' = [type |-> "ValueError",
                             text |-> "dict contains fields not in fieldnames: "
                                      \o JoinRepr(wrong)]
                /\ hpc' = "except"
                /\ UNCHANGED <<files, h_idx>>
           ELSE /\ files' = [files EXCEPT
                                ![h_path].rows = Append(@, DictToList(rowdict, fieldnames))]
                /\ h_idx' = h_idx + 1
                /\ UNCHANGED <<hpc, h_exc>>
    /\ UNCHANGED <<dirs, now, caller, h_transactions, h_file_path, h_path, h_ret,
                   filesBefore, pvars>>

\* line 34
H_Return ==
    /\ hpc = "rows"
    /\ h_idx > Len(h_transactions)
    /\ h_ret' = <<TRUE, h_path>>
    /\ hpc' = "returned"
    /\ UNCHANGED <<fsvars, caller, h_transactions, h_file_path, h_path, h_idx, h_exc,
                   filesBefore, pvars>>

\* lines 35-42
H_Except ==
    /\ hpc = "except"
    /\ IF Caught(h_exc.type)
       THEN /\ h_ret' = ExceptResult(h_exc, h_path)
            /\ hpc' = "returned"
       ELSE /\ hpc' = "raised"
            /\ UNCHANGED h_ret
    /\ UNCHANGED <<fsvars, caller, h_transactions, h_file_path, h_path, h_idx, h_exc,
                   filesBefore, pvars>>

HelperStep ==
    \/ H_Resolve
    \/ H_Open
    \/ H_CheckEmpty
    \/ H_Header
    \/ H_WriteRow
    \/ H_Return
    \/ H_Except

----------------------------------------------------------------------------
(* ui.settings_panel.SettingsPanel *)

\* the themes the Settings row may hold when the panel is built
StartThemes == {"Light", "Dark", "System"}

ToggleValue_Inverted(current) == IF current = "Dark" THEN "Light" ELSE "Dark"

ToggleValue_StuckDark(current) == IF current = "Light" THEN "Dark" ELSE current

\* line 92
ToggleValue(current) == IF current = "Light" THEN "Dark" ELSE "Light"

\* lines 63 and 101
LabelFor(theme) == "Current Theme: " \o theme

TogglePcAfter_CallbackAlways(pc, callback) ==
    CASE pc = "idle" -> "t_save"
      [] pc = "t_save" -> "t_label"
      [] pc = "t_label" -> "t_callback"
      [] pc = "t_callback" -> "t_msg"
      [] OTHER -> "idle"

\* lines 92-108: the statement that follows each statement of toggle_theme
TogglePcAfter(pc, callback) ==
    CASE pc = "idle" -> "t_save"
      [] pc = "t_save" -> "t_label"
      [] pc = "t_label" -> IF callback THEN "t_callback" ELSE "t_msg"
      [] pc = "t_callback" -> "t_msg"
      [] OTHER -> "idle"

\* no toggle_theme call to remember
NoSnap == [theme_var |-> "", db_theme |-> "", label_text |-> ""]

Snapshot == [theme_var |-> theme_var, db_theme |-> db_theme, label_text |-> label_text]

InfoBox(title, text) == [kind |-> "info", title |-> title, text |-> text]
ErrorBox(title, text) == [kind |-> "error", title |-> title, text |-> text]

HelperIdle ==
    /\ hpc' = "idle"
    /\ caller' = "none"
    /\ h_transactions' = <<>>
    /\ h_file_path' = <<>>
    /\ h_path' = ""
    /\ h_idx' = 0
    /\ h_exc' = NoException
    /\ h_ret' = <<>>
    /\ filesBefore' = files

\* lines 92-94: the Toggle Theme button starts toggle_theme
T_Set ==
    /\ ppc = "idle"
    /\ LET new == ToggleValue(theme_var)
       IN  /\ new_theme' = new
           /\ theme_var' = new
           /\ appearance' = new
    /\ handler' = "toggle"
    /\ events' = <<"theme_var.set", "set_appearance_mode">>
    /\ boxes' = <<>>
    /\ outcome' = "running"
    /\ toggleOutcome' = "running"
    /\ snapPrev' = IF toggleOutcome = "completed" THEN snapCur ELSE NoSnap
    /\ snapCur' = Snapshot
    /\ filesAtHandler' = files
    /\ p_exc' = NoException
    /\ p_df' = <<>>
    /\ p_transactions' = <<>>
    /\ p_file_path' = ""
    /\ ppc' = TogglePcAfter(ppc, refresh_callback)
    /\ UNCHANGED <<fsvars, hvars, settings_theme, db_theme, label_text, refresh_callback>>

\* lines 97-98: settings.save() writes the row, or raises and ends the handler
T_Save ==
    /\ ppc = "t_save"
    /\ settings_theme' = new_theme
    /\ events' = Append(events, "settings.save")
    /\ \/ /\ db_theme' = new_theme
          /\ ppc' = TogglePcAfter(ppc, refresh_callback)
          /\ UNCHANGED <<outcome, toggleOutcome, p_exc>>
       \/ /\ p_exc' = [type |-> "OperationalError", text |-> "settings.save"]
          /\ outcome' = "raised"
          /\ toggleOutcome' = "raised"
          /\ ppc' = "idle"
          /\ UNCHANGED db_theme
    /\ UNCHANGED <<fsvars, hvars, theme_var, label_text, appearance, refresh_callback,
                   new_theme, p_df, p_transactions, p_file_path, handler, boxes,
                   filesAtHandler, snapCur, snapPrev>>

\* line 101
T_Label ==
    /\ ppc = "t_label"
    /\ label_text' = LabelFor(new_theme)
    /\ events' = Append(events, "label.configure")
    /\ ppc' = TogglePcAfter(ppc, refresh_callback)
    /\ UNCHANGED <<fsvars, hvars, theme_var, settings_theme, db_theme, appearance,
                   refresh_callback, plocals, handler, boxes, outcome, toggleOutcome,
                   filesAtHandler, snapCur, snapPrev>>

\* lines 104-105: the callback returns, or raises and ends the handler
T_Callback ==
    /\ ppc = "t_callback"
    /\ events' = Append(events, "refresh_callback")
    /\ \/ /\ ppc' = TogglePcAfter(ppc, refresh_callback)
          /\ UNCHANGED <<outcome, toggleOutcome, p_exc>>
       \/ /\ p_exc' = [type |-> "Exception", text |-> "refresh_callback"]
          /\ outcome' = "raised"
          /\ toggleOutcome' = "raised"
          /\ ppc' = "idle"
    /\ UNCHANGED <<fsvars, hvars, themevars, refresh_callback, new_theme, p_df,
                   p_transactions, p_file_path, handler, boxes, filesAtHandler, snapCur,
                   snapPrev>>

\* line 108
T_Msg ==
    /\ ppc = "t_msg"
    /\ boxes' = Append(boxes, InfoBox("Success", "Theme changed to " \o new_theme))
    /\ events' = Append(events, "showinfo")
    /\ outcome' = "completed"
    /\ toggleOutcome' = "completed"
    /\ ppc' = TogglePcAfter(ppc, refresh_callback)
    /\ UNCHANGED <<fsvars, hvars, themevars, refresh_callback, plocals, handler,
                   filesAtHandler, snapCur, snapPrev>>

\* the rows analytics.get_transaction_history may return; amount <<>> is a
\* missing amount, description <<>> a missing description
DfRows ==
    { [date |-> [year |-> 2025, month |-> 1, day |-> 5], category |-> "Salary",
       description |-> <<>>, amount |-> <<125000>>, is_income |-> TRUE],
      [date |-> [year |-> 2025, month |-> 1, day |-> 6], category |-> "Rent",
       description |-> <<"flat">>, amount |-> <<80050>>, is_income |-> FALSE],
      [date |-> [year |-> 2025, month |-> 1, day |-> 7], category |-> "Food",
       description |-> <<"">>, amount |-> <<>>, is_income |-> FALSE] }

\* the histories the handler may read: up to MaxRows rows, no row twice
Histories ==
    {h \in SeqsUpTo(DfRows, MaxRows) : \A i, j \in 1..Len(h) : h[i] = h[j] => i = j}

\* line 130: row['date'].strftime("%Y-%m-%d")
FormatDate(d) == ZeroPad(d.year, 4) \o "-" \o ZeroPad(d.month, 2) \o "-" \o ZeroPad(d.day, 2)

\* line 136: f"{amount:.2f}", the amount counted in hundredths
FormatAmount(hundredths) ==
    ToString(hundredths \div 100) \o "." \o ZeroPad(hundredths % 100, 2)

\* lines 132-138
FormatRow(row) ==
    << <<"Date", FormatDate(row.date)>>,
       <<"Category", row.category>>,
       <<"Description", IF row.description = <<>> THEN "" ELSE row.description[1]>>,
       <<"Amount", FormatAmount(row.amount[1])>>,
       <<"Type", IF row.is_income THEN "Income" ELSE "Expense">> >>

\* line 136 raises TypeError for a row without an amount
Formattable(row) == row.amount # <<>>

DialogCancelled_Never(file_path) == FALSE

\* line 149: `not file_path`
DialogCancelled(file_path) == file_path = ""

\* what filedialog.asksaveasfilename may return: "" when the user cancels
DialogPaths == {""} \cup GivenPaths

\* lines 118-125: the Export Transactions button starts export_transactions
E_History ==
    /\ ppc = "idle"
    /\ handler' = "export"
    /\ events' = <<"get_transaction_history">>
    /\ filesAtHandler' = files
    /\ p_transactions' = <<>>
    /\ p_file_path' = ""
    /\ new_theme' = ""
    /\ \/ \E df \in Histories :
            /\ p_df' = df
            /\ p_exc' = NoException
            /\ IF df = <<>>
               THEN /\ boxes' = <<InfoBox("Export Transactions", "No transactions to export")>>
                    /\ outcome' = "completed"
                    /\ ppc' = "idle"
               ELSE /\ boxes' = <<>>
                    /\ outcome' = "running"
                    /\ ppc' = "e_format"
       \/ /\ p_df' = <<>>
          /\ p_exc' = [type |-> "Exception", text |-> "get_transaction_history"]
          /\ boxes' = <<>>
          /\ outcome' = "running"
          /\ ppc' = "e_except"
    /\ UNCHANGED <<fsvars, hvars, themevars, refresh_callback, toggleOutcome, snapCur,
                   snapPrev>>

\* lines 128-139: the rows in order; the first row that cannot be formatted raises
E_Format ==
    /\ ppc = "e_format"
    /\ IF \A i \in 1..Len(p_df) : Formattable(p_df[i])
       THEN /\ p_transactions' = [i \in 1..Len(p_df) |-> FormatRow(p_df[i])]
            /\ ppc' = "e_dialog"
            /\ UNCHANGED p_exc
       ELSE /\ p_transactions' =
                 LET bad == CHOOSE i \in 1..Len(p_df) :
                               /\ ~Formattable(p_df[i])
                               /\ \A j \in 1..(i - 1) : Formattable(p_df[j])
                 IN  [i \in 1..(bad - 1) |-> FormatRow(p_df[i])]
            /\ p_exc' = [type |-> "TypeError",
                         text |-> "unsupported format string passed to NoneType.__format__"]
            /\ ppc' = "e_except"
    /\ UNCHANGED <<fsvars, hvars, themevars, refresh_callback, new_theme, p_df,
                   p_file_path, histvars>>

\* lines 142-153: the save dialog, then the call of the export helper
E_Dialog ==
    /\ ppc = "e_dialog"
    /\ \E file_path \in DialogPaths :
         /\ p_file_path' = file_path
         /\ IF DialogCancelled(file_path)
            THEN /\ events' = Append(events, "asksaveasfilename")
                 /\ outcome' = "completed"
                 /\ ppc' = "idle"
                 /\ UNCHANGED hvars
            ELSE /\ events' = events \o <<"asksaveasfilename", "export_transactions">>
                 /\ hpc' = "resolve"
                 /\ caller' = "panel"
                 /\ h_transactions' = p_transactions
                 /\ h_file_path' = <<file_path>>
                 /\ h_path' = ""
                 /\ h_idx' = 0
                 /\ h_exc' = NoException
                 /\ h_ret' = <<>>
                 /\ filesBefore' = files
                 /\ ppc' = "e_wait"
                 /\ UNCHANGED outcome
    /\ UNCHANGED <<fsvars, themevars, refresh_callback, new_theme, p_df, p_transactions,
                   p_exc, handler, boxes, toggleOutcome, filesAtHandler, snapCur, snapPrev>>

\* lines 153-159: the helper's result, shown in a message box
E_Show ==
    /\ ppc = "e_wait"
    /\ hpc \in {"returned", "raised"}
    /\ IF hpc = "raised"
       THEN /\ p_exc' = h_exc
            /\ ppc' = "e_except"
            /\ UNCHANGED <<boxes, events, outcome>>
       ELSE /\ boxes' = Append(boxes,
                          IF h_ret[1]
                          THEN InfoBox("Export Successful",
                                       "Transactions exported to:\n" \o h_ret[2])
                          ELSE ErrorBox("Export Failed", h_ret[2]))
            /\ events' = Append(events, IF h_ret[1] THEN "showinfo" ELSE "showerror")
            /\ outcome' = "completed"
            /\ ppc' = "idle"
            /\ UNCHANGED p_exc
    /\ HelperIdle
    /\ UNCHANGED <<fsvars, themevars, refresh_callback, new_theme, p_df,
                   p_transactions, p_file_path, handler, toggleOutcome, filesAtHandler,
                   snapCur, snapPrev>>

\* lines 161-163
E_Except ==
    /\ ppc = "e_except"
    /\ boxes' = Append(boxes, ErrorBox("Export Error",
                                       "An error occurred while exporting: " \o p_exc.text))
    /\ events' = Append(events, "showerror")
    /\ outcome' = "completed"
    /\ ppc' = "idle"
    /\ UNCHANGED <<fsvars, hvars, themevars, refresh_callback, plocals, handler,
                   toggleOutcome, filesAtHandler, snapCur, snapPrev>>

PanelStep ==
    \/ T_Set
    \/ T_Save
    \/ T_Label
    \/ T_Callback
    \/ T_Msg
    \/ E_History
    \/ E_Format
    \/ E_Dialog
    \/ E_Show
    \/ E_Except

----------------------------------------------------------------------------
(* Initial states *)

\* the directories: "data" is writable, "missing" does not exist, "locked" is
\* read-only; the working directory is writable or read-only.  With old, every
\* path that can hold a file holds one already.
InitFs(cwds, clocks, olds) ==
    /\ dirs \in {[d \in {"data", "missing", "locked", "."} |->
                    CASE d = "data" -> "writable"
                      [] d = "missing" -> "missing"
                      [] d = "locked" -> "denied"
                      [] OTHER -> cwd] : cwd \in cwds}
    /\ \E old \in olds :
         files = [p \in AllPaths |->
                    IF old /\ p # "data" /\ DirOf(p) # "missing" THEN OldFile ELSE NoFile]
    /\ now \in clocks

\* lines 21-37 and 63-66: the panel as built from the Settings row
InitPanel ==
    /\ ppc = "idle"
    /\ db_theme \in StartThemes
    /\ settings_theme = db_theme
    /\ label_text = LabelFor(settings_theme)
    /\ theme_var = settings_theme
    /\ appearance \in StartThemes
    /\ refresh_callback \in BOOLEAN
    /\ new_theme = "" /\ p_df = <<>> /\ p_transactions = <<>> /\ p_file_path = ""
    /\ p_exc = NoException
    /\ handler = "none" /\ events = <<>> /\ boxes = <<>>
    /\ outcome = "none" /\ toggleOutcome = "none"
    /\ filesAtHandler = files
    /\ snapCur = NoSnap /\ snapPrev = NoSnap

\* no panel: the helper is called on its own
InitNoPanel ==
    /\ ppc = "none"
    /\ db_theme = "Light" /\ settings_theme = "Light" /\ label_text = ""
    /\ theme_var = "Light" /\ appearance = "Light"
    /\ refresh_callback = FALSE
    /\ new_theme = "" /\ p_df = <<>> /\ p_transactions = <<>> /\ p_file_path = ""
    /\ p_exc = NoException
    /\ handler = "none" /\ events = <<>> /\ boxes = <<>>
    /\ outcome = "none" /\ toggleOutcome = "none"
    /\ filesAtHandler = files
    /\ snapCur = NoSnap /\ snapPrev = NoSnap

\* a direct call export_transactions(transactions, file_path)
InitExport ==
    /\ InitFs({"writable", "denied"}, 0..MaxClock, BOOLEAN)
    /\ hpc = "resolve"
    /\ caller = "direct"
    /\ h_transactions \in TxnLists
    /\ h_file_path \in PathArgs
    /\ h_path = "" /\ h_idx = 0 /\ h_exc = NoException /\ h_ret = <<>>
    /\ filesBefore = files
    /\ InitNoPanel

\* the application with its settings panel open and no handler running
InitApp ==
    /\ InitFs({"writable"}, {0}, BOOLEAN)
    /\ hpc = "idle"
    /\ caller = "none"
    /\ h_transactions = <<>>
    /\ h_file_path = <<>>
    /\ h_path = "" /\ h_idx = 0 /\ h_exc = NoException /\ h_ret = <<>>
    /\ filesBefore = files
    /\ InitPanel

SpecExport == InitExport /\ [][HelperStep]_vars

SpecPanel == InitApp /\ [][PanelStep \/ HelperStep]_vars

----------------------------------------------------------------------------
(* Properties of export_transactions *)

Returned == hpc = "returned"

\* the path the call targets, by the caller's view of its arguments
Target ==
    IF h_file_path = <<>> \/ h_file_path = <<"">> THEN "default" ELSE h_file_path[1]

TargetDir == IF Target = "default" THEN "." ELSE DirOf(Target)

TargetWritable == Target # "data" /\ dirs[TargetDir] = "writable"

KeySet(d) == {d[i][1] : i \in 1..Len(d)}

SameKeysAsFirst ==
    \A i \in 1..Len(h_transactions) : KeySet(h_transactions[i]) = KeySet(h_transactions[1])

ChangedPaths == {p \in AllPaths : files[p] # filesBefore[p]}

TwoDigits ==
    << "00", "01", "02", "03", "04", "05", "06", "07", "08", "09",
       "10", "11", "12", "13", "14", "15", "16", "17", "18", "19",
       "20", "21", "22", "23", "24", "25", "26", "27", "28", "29",
       "30", "31", "32", "33", "34", "35", "36", "37", "38", "39",
       "40", "41", "42", "43", "44", "45", "46", "47", "48", "49",
       "50", "51", "52", "53", "54", "55", "56", "57", "58", "59" >>

\* transactions_export_<YYYYMMDD_HHMMSS>.csv for the clock reading t
ExpectedDefaultName(t) ==
    LET c == ClockTime(t)
    IN  "transactions_export_"
        \o TwoDigits[(c.year \div 100) + 1] \o TwoDigits[(c.year % 100) + 1]
        \o TwoDigits[c.month + 1] \o TwoDigits[c.day + 1] \o "_"
        \o TwoDigits[c.hour + 1] \o TwoDigits[c.minute + 1] \o TwoDigits[c.second + 1]
        \o ".csv"

\* C1 (as stated): a call with an empty transaction list returns
\* (False, "No transactions to export") whatever the target path is.
C1_EmptyListAlwaysNoTransactions ==
    (Returned /\ h_transactions = <<>>) =>
        h_ret = <<FALSE, "No transactions to export">>

\* C2: N >= 1 records with the keys of the first record, written to a writable
\* path, give (True, path written); the file holds N+1 rows, the header being the
\* first record's keys in order and row i+1 the cells of record i under those keys.
C2_WellFormedExportWritesHeaderAndRows ==
    (Returned /\ Len(h_transactions) >= 1 /\ SameKeysAsFirst /\ TargetWritable) =>
        /\ Len(h_ret) = 2 /\ h_ret[1] = TRUE
        /\ ChangedPaths = {h_ret[2]}
        /\ LET rows == files[h_ret[2]].rows
               n == Len(h_transactions)
           IN  /\ files[h_ret[2]].exists
               /\ Len(rows) = n + 1
               /\ rows[1] = [j \in 1..Len(h_transactions[1]) |-> h_transactions[1][j][1]]
               /\ \A i \in 1..n :
                    /\ Len(rows[i + 1]) = Len(rows[1])
                    /\ \A j \in 1..Len(rows[1]) :
                         \E k \in 1..Len(h_transactions[i]) :
                            h_transactions[i][k] = <<rows[1][j], rows[i + 1][j]>>

C2_Witness ==
    /\ Returned /\ caller = "direct"
    /\ Len(h_transactions) = 2
    /\ SameKeysAsFirst
    /\ Keys(h_transactions[1]) # Keys(h_transactions[2])
    /\ TargetWritable
    /\ filesBefore["data/out.csv"] = OldFile
    /\ h_ret = <<TRUE, "data/out.csv">>

\* C3: the call never lets an exception out and returns a pair (boolean, string):
\* (False, directory message) for a missing directory, (False, permission
\* message) for a denied one, and (False, message with the error's type name and
\* text) for any other error, a record with keys outside the first record's included.
C3_EveryFailureIsAFlagAndAMessage ==
    /\ hpc # "raised"
    /\ Returned =>
        /\ Len(h_ret) = 2 /\ h_ret[1] \in BOOLEAN /\ h_ret[2] \in STRING
        /\ (Target \notin {"default", "data"} /\ dirs[TargetDir] = "missing") =>
              h_ret = <<FALSE, "Error: The directory for '" \o Target \o "' does not exist.">>
        /\ (Target # "data" /\ dirs[TargetDir] = "denied") =>
              h_ret = <<FALSE, "Error: Permission denied to write to '"
                               \o (IF Target = "default" THEN ExpectedDefaultName(now)
                                   ELSE Target)
                               \o "'.">>
        /\ (h_exc.type \notin {"", "FileNotFoundError", "PermissionError"}) =>
              h_ret = <<FALSE, "Error exporting transactions: "
                               \o h_exc.type \o ": " \o h_exc.text>>
        /\ (TargetWritable /\ h_transactions # <<>> /\ ~SameKeysAsFirst
              /\ \E i \in 1..Len(h_transactions) :
                    ~(KeySet(h_transactions[i]) \subseteq KeySet(h_transactions[1]))) =>
              /\ h_exc.type = "ValueError"
              /\ h_ret[1] = FALSE
        /\ Target = "data" => h_exc.type = "IsADirectoryError"

C3_Witness ==
    /\ Returned /\ caller = "direct"
    /\ h_exc.type = "ValueError"
    /\ h_idx = 2
    /\ h_ret = <<FALSE, "Error exporting transactions: ValueError: "
                        \o "dict contains fields not in fieldnames: 'Type'">>

\* C4: a target in a directory that does not exist gives success = False without
\* raising, for every transaction list, and no file is created.
C4_MissingDirectoryFailsWithoutFile ==
    (Target \notin {"default", "data"} /\ dirs[TargetDir] = "missing") =>
        /\ hpc # "raised"
        /\ files = filesBefore
        /\ ~files[Target].exists
        /\ Returned => (Len(h_ret) = 2 /\ h_ret[1] = FALSE)

C4_Witness ==
    /\ Returned /\ caller = "direct"
    /\ Target = "missing/out.csv"
    /\ Len(h_transactions) = 2
    /\ h_ret[1] = FALSE

\* C5: with no file path (None or "") the file written and the path returned on
\* success is transactions_export_<YYYYMMDD_HHMMSS>.csv of the current time; a
\* non-empty path is used and returned unchanged, and no default name is made.
C5_DefaultNameOnlyWhenPathOmitted ==
    Returned =>
        IF h_file_path \in {<<>>, <<"">>}
        THEN /\ ChangedPaths \subseteq {ExpectedDefaultName(now)}
             /\ h_ret[1] = TRUE =>
                  /\ h_ret[2] = ExpectedDefaultName(now)
                  /\ files[h_ret[2]].exists
                  /\ files[h_ret[2]].rows # <<>>
             /\ (dirs["."] = "writable" /\ h_transactions # <<>> /\ SameKeysAsFirst) =>
                  h_ret[1] = TRUE
        ELSE /\ ChangedPaths \subseteq {h_file_path[1]}
             /\ h_ret[1] = TRUE =>
                  /\ h_ret[2] = h_file_path[1]
                  /\ files[h_ret[2]].exists
                  /\ files[h_ret[2]].rows # <<>>

C5_Witness ==
    /\ Returned /\ caller = "direct"
    /\ h_file_path = <<"">>
    /\ now >= 2
    /\ h_ret = <<TRUE, "transactions_export_20250105_100000.csv">>
    /\ files["transactions_export_20250105_100000.csv"].rows # <<>>

\* C9 (as stated): whenever the call returns success = False the target file is
\* as it was before the call: not created, not truncated, not partly written.
C9_FailureLeavesTargetUntouched ==
    (Returned /\ h_ret[1] = FALSE) => files = filesBefore

----------------------------------------------------------------------------
(* Properties of the SettingsPanel *)

InToggle == ppc \in {"t_save", "t_label", "t_callback", "t_msg"}

\* C6: after a completed toggle_theme the theme variable, the Settings object, the
\* persisted Settings row, the appearance mode and the label show one value, which
\* is "Dark" when the toggle started from "Light" and "Light" otherwise; a panel
\* not yet toggled shows the persisted theme in its variable and label.
C6_CompletedToggleLeavesOneTheme ==
    /\ (toggleOutcome = "completed" /\ ~InToggle) =>
          /\ theme_var \in {"Light", "Dark"}
          /\ settings_theme = theme_var
          /\ db_theme = theme_var
          /\ appearance = theme_var
          /\ label_text = "Current Theme: " \o theme_var
          /\ (snapCur.theme_var = "Light") => theme_var = "Dark"
          /\ (snapCur.theme_var # "Light") => theme_var = "Light"
    /\ toggleOutcome = "none" =>
          /\ theme_var = db_theme
          /\ settings_theme = db_theme
          /\ label_text = "Current Theme: " \o db_theme

C6_Witness ==
    /\ toggleOutcome = "completed" /\ ppc = "idle"
    /\ snapPrev # NoSnap
    /\ snapPrev.theme_var = "System"
    /\ snapCur.theme_var = "Light"
    /\ theme_var = "Dark" /\ db_theme = "Dark" /\ appearance = "Dark"
    /\ label_text = "Current Theme: Dark"

\* the run of export_transactions that has ended, or is under way
ExportRun == handler = "export"

ExportEnded == ExportRun /\ ppc = "idle"

\* C7: the export helper runs, and a file changes, only after the history was
\* found non-empty and the dialog gave a non-empty path; an empty history ends
\* the run with the dialog unopened and the one info box "No transactions to
\* export"; a cancelled dialog ends it with no file changed and no box; every
\* other run ends with exactly one box (Export Successful, Export Failed or
\* Export Error); no run lets an exception out.
C7_ExportHandlerGuardsAndReports ==
    ExportRun =>
        /\ outcome # "raised"
        /\ (hpc # "idle" \/ files # filesAtHandler
              \/ "export_transactions" \in Range(events)) =>
              /\ p_df # <<>>
              /\ p_file_path # ""
              /\ p_exc = NoException \/ hpc = "raised"
              /\ Len(events) >= 3
              /\ SubSeq(events, 1, 3) =
                    <<"get_transaction_history", "asksaveasfilename", "export_transactions">>
              /\ h_transactions # <<>> \/ hpc = "idle"
        /\ ExportEnded =>
              /\ outcome = "completed"
              /\ hpc = "idle"
              /\ (p_df = <<>> /\ p_exc = NoException) =>
                    /\ "asksaveasfilename" \notin Range(events)
                    /\ boxes = <<[kind |-> "info", title |-> "Export Transactions",
                                  text |-> "No transactions to export"]>>
                    /\ files = filesAtHandler
              /\ (p_df # <<>> /\ p_exc = NoException /\ p_file_path = "") =>
                    /\ "asksaveasfilename" \in Range(events)
                    /\ boxes = <<>>
                    /\ files = filesAtHandler
              /\ ~(p_exc = NoException /\ (p_df = <<>> \/ p_file_path = "")) =>
                    /\ Len(boxes) = 1
                    /\ \/ boxes[1].kind = "info" /\ boxes[1].title = "Export Successful"
                       \/ boxes[1].kind = "error" /\ boxes[1].title = "Export Failed"
                       \/ boxes[1].kind = "error" /\ boxes[1].title = "Export Error"
                    /\ boxes[1].title = "Export Successful" =>
                          /\ files[p_file_path].exists
                          /\ Len(files[p_file_path].rows) = Len(p_df) + 1

C7_Witness ==
    /\ ExportEnded
    /\ Len(p_df) = 2
    /\ p_file_path = "data/out.csv"
    /\ boxes = <<[kind |-> "info", title |-> "Export Successful",
                  text |-> "Transactions exported to:\ndata/out.csv"]>>
    /\ files["data/out.csv"].rows[1] = <<"Date", "Category", "Description", "Amount", "Type">>
    /\ files["data/out.csv"].rows[2] = <<"2025-01-06", "Rent", "flat", "800.50", "Expense">>
    /\ files["data/out.csv"].rows[3] = <<"2025-01-05", "Salary", "", "1250.00", "Income">>

\* what a toggle_theme run does when nothing raises, in order
ToggleOrder ==
    <<"theme_var.set", "set_appearance_mode", "settings.save", "label.configure">>
    \o (IF refresh_callback THEN <<"refresh_callback">> ELSE <<>>)
    \o <<"showinfo">>

IsPrefix(s, t) == Len(s) <= Len(t) /\ s = SubSeq(t, 1, Len(s))

Count(s, x) == Cardinality({i \in 1..Len(s) : s[i] = x})

\* C8: in a toggle_theme run the theme is saved before the refresh callback runs;
\* the callback runs once when one was given and never otherwise; the "Theme
\* changed" box comes last, after the callback; a failed save ends the run with
\* neither callback nor box.
C8_SaveThenCallbackThenConfirmation ==
    handler = "toggle" =>
        /\ IsPrefix(events, ToggleOrder)
        /\ "refresh_callback" \in Range(events) =>
              /\ refresh_callback
              /\ "settings.save" \in Range(events)
              /\ db_theme = new_theme
              /\ settings_theme = new_theme
        /\ Count(events, "refresh_callback") <= 1
        /\ "showinfo" \in Range(events) =>
              /\ events[Len(events)] = "showinfo"
              /\ refresh_callback => Count(events, "refresh_callback") = 1
              /\ boxes = <<[kind |-> "info", title |-> "Success",
                            text |-> "Theme changed to " \o new_theme]>>
              /\ db_theme = new_theme
        /\ "showinfo" \notin Range(events) => boxes = <<>>
        /\ (outcome = "completed") <=> ("showinfo" \in Range(events))
        /\ (outcome = "raised" /\ p_exc.text = "settings.save") =>
              /\ "refresh_callback" \notin Range(events)
              /\ "showinfo" \notin Range(events)
              /\ boxes = <<>>

C8_Witness ==
    /\ handler = "toggle" /\ ppc = "idle" /\ outcome = "completed"
    /\ refresh_callback
    /\ events = <<"theme_var.set", "set_appearance_mode", "settings.save",
                  "label.configure", "refresh_callback", "showinfo">>

\* the last two toggle_theme runs both completed
TwoCompletedToggles == toggleOutcome = "completed" /\ ~InToggle /\ snapPrev # NoSnap

\* C10 (as stated): from a theme variable "Light" or "Dark", two consecutive
\* completed toggles restore the theme variable, the persisted theme and the label
\* to their values before the first of the two.
C10_TwoTogglesRestoreEverything ==
    (TwoCompletedToggles /\ snapPrev.theme_var \in {"Light", "Dark"}) =>
        Snapshot = snapPrev

\* C10 (amended): two consecutive completed toggles from a theme variable "Light"
\* or "Dark" restore the theme variable and leave the persisted theme and the
\* label showing it, so all three are restored when they agreed before the first
\* toggle; from any other theme the first toggle gives "Light", and once a toggle
\* has run the theme variable is "Light" or "Dark" for good.
C10_TwoTogglesRestoreThemeVariable ==
    /\ (TwoCompletedToggles /\ snapPrev.theme_var \in {"Light", "Dark"}) =>
          /\ theme_var = snapPrev.theme_var
          /\ db_theme = theme_var
          /\ label_text = "Current Theme: " \o theme_var
          /\ (/\ snapPrev.db_theme = snapPrev.theme_var
              /\ snapPrev.label_text = "Current Theme: " \o snapPrev.theme_var) =>
                Snapshot = snapPrev
    /\ (toggleOutcome # "none" /\ snapCur.theme_var \notin {"Light", "Dark"}) =>
          theme_var = "Light"
    /\ toggleOutcome # "none" => theme_var \in {"Light", "Dark"}

C10_Witness ==
    /\ TwoCompletedToggles /\ ppc = "idle"
    /\ snapPrev = [theme_var |-> "Dark", db_theme |-> "Dark",
                   label_text |-> "Current Theme: Dark"]
    /\ snapCur.theme_var = "Light"
    /\ Snapshot = snapPrev

====
